---- MODULE Spec2Model ----
(***************************************************************************)
(* Portfolio drift checker (src/main.py): configuration loading, the       *)
(* two-tier price fetch, the portfolio calculator, the drift analyzer and  *)
(* the notification decision of one run.                                   *)
(*                                                                         *)
(* Numbers.  Python floats are modelled as integers.  Share quantities and *)
(* prices are whole units.  Allocation fractions, target fractions and the *)
(* drift threshold are counted in units of 1/Scale, and a division rounds  *)
(* to the nearest unit, as a float division rounds to the nearest          *)
(* representable value.  NaN is a value of its own: arithmetic on it gives *)
(* NaN and every ordering comparison with it is false.                     *)
(*                                                                         *)
(* Dicts.  A dict whose iteration order the code relies on (holdings,      *)
(* target_allocations) is a sequence of key/value records with distinct    *)
(* keys, in insertion order.  The other dicts are functions on their key   *)
(* set.                                                                    *)
(***************************************************************************)
EXTENDS Integers, Sequences, FiniteSets, TLC

VARIABLES
    pc,                  \* position of the run / of the function under check
    DRIFT_THRESHOLD,     \* module constant read from the environment at import
    holdings,            \* dict ticker -> shares, insertion order
    target_allocations,  \* dict ticker -> target fraction, insertion order
    warmup,              \* result of is_warmup_period()
    tickers,             \* argument of fetch_current_prices
    data,                \* the bulk download's table (the fallback's JSON
                         \* document, for which the code reuses the name, is
                         \* the outcome o of FallbackQuery)
    prices,              \* dict ticker -> price
    missing_tickers,     \* tickers left for the per-ticker fallback
    idx,                 \* position of the fallback loop in missing_tickers
    bulk_requests,       \* number of bulk requests issued
    queried,             \* number of fallback requests issued, per ticker
    position_values,     \* dict ticker -> value
    total_value,
    current_allocations, \* dict ticker -> fraction
    alerts,              \* list of drift alerts
    emails,              \* number of send_email invocations
    delivered,           \* number of messages handed to the SMTP server
    error,               \* the exception that ended the run, or "none"
    reached              \* stages of the run entered so far

vars == <<pc, DRIFT_THRESHOLD, holdings, target_allocations, warmup, tickers,
          data, prices, missing_tickers, idx, bulk_requests, queried,
          position_values, total_value, current_allocations, alerts, emails,
          delivered, error, reached>>

----------------------------------------------------------------------------
(* Bounds of the model *)

MaxShares == 2
MaxPrice == 2
MaxRows == 2
MaxDays == 15
Scale == 20

(* Program constants *)

WARMUP_PERIOD_DAYS == 14

Tickers == {"A", "B"}
Other == "C"

----------------------------------------------------------------------------
(* Floats *)

\* NaN and a JSON value that is not a number (a string): two values outside
\* the range of every number the bounds allow
NaN == -999999
NonNumber == -888888

Mul(a, b) == IF a = NaN \/ b = NaN THEN NaN ELSE a * b
Add(a, b) == IF a = NaN \/ b = NaN THEN NaN ELSE a + b
Sub(a, b) == IF a = NaN \/ b = NaN THEN NaN ELSE a - b
Gt(a, b) == a # NaN /\ b # NaN /\ a > b
Abs(a) == IF a = NaN THEN NaN ELSE IF a < 0 THEN 0 - a ELSE a
\* value / total_value as a fraction in units of 1/Scale, rounded to nearest;
\* called with total > 0 or NaN only
Div(a, b) == IF a = NaN \/ b = NaN THEN NaN ELSE (2 * a * Scale + b) \div (2 * b)

----------------------------------------------------------------------------
(* Dicts *)

EmptyDict == [t \in {} |-> 0]
Keys(d) == {d[k].ticker : k \in DOMAIN d}
Range(s) == {s[k] : k \in DOMAIN s}
Last(s) == s[Len(s)]

\* duplicate-free sequences over S of length at most n
RECURSIVE OrderedSubsets(_, _)
OrderedSubsets(S, n) ==
    IF n = 0 \/ S = {} THEN {<<>>}
    ELSE {<<>>} \cup UNION {{<<x>> \o r : r \in OrderedSubsets(S \ {x}, n - 1)} : x \in S}

\* dicts with the keys ks (in that order) and values from V
RECURSIVE DictsOver(_, _)
DictsOver(ks, V) ==
    IF ks = <<>> THEN {<<>>}
    ELSE {<<[ticker |-> Head(ks), val |-> v]>> \o r : v \in V, r \in DictsOver(Tail(ks), V)}

----------------------------------------------------------------------------
(* Portfolio calculator and drift analyzer *)

RECURSIVE SumValues(_, _)
SumValues(h, pv) ==
    IF h = <<>> THEN 0
    ELSE IF Head(h).ticker \in DOMAIN pv
         THEN Add(pv[Head(h).ticker], SumValues(Tail(h), pv))
         ELSE SumValues(Tail(h), pv)

Get(d, t) == d[CHOOSE k \in DOMAIN d : d[k].ticker = t].val

calculate_portfolio_value_zeroed(h, p) ==
    LET pv == [t \in Keys(h) |-> IF t \in DOMAIN p THEN Mul(Get(h, t), p[t]) ELSE 0]
    IN  [total |-> SumValues(h, pv), values |-> pv]

calculate_portfolio_value(h, p) ==
    LET pv == [t \in {u \in Keys(h) : u \in DOMAIN p} |->
                 Mul(Get(h, t), p[t])]
    IN  [total |-> SumValues(h, pv), values |-> pv]

calculate_current_allocations_dropped(pv, total) ==
    IF total = 0 THEN EmptyDict
    ELSE [t \in DOMAIN pv |-> Div(pv[t], total)]

calculate_current_allocations(pv, total) ==
    IF total = 0 THEN [t \in DOMAIN pv |-> 0]
    ELSE [t \in DOMAIN pv |-> Div(pv[t], total)]

\* line 198
direction(drift) == IF Gt(drift, 0) THEN "OVER" ELSE "UNDER"

exceeds_inclusive(drift, threshold) ==
    Gt(Abs(drift), threshold) \/ Abs(drift) = threshold

\* line 197
exceeds(drift, threshold) == Gt(Abs(drift), threshold)

RECURSIVE check_drift(_, _, _)
check_drift(current, targets, threshold) ==
    IF targets = <<>> THEN <<>>
    ELSE LET ticker == Head(targets).ticker
             target == Head(targets).val
             cur == IF ticker \in DOMAIN current THEN current[ticker] ELSE 0
             drift == Sub(cur, target)
             rest == check_drift(current, Tail(targets), threshold)
         IN  IF exceeds(drift, threshold)
             THEN <<[ticker |-> ticker, target |-> Mul(target, 100),
                     current |-> Mul(cur, 100), drift |-> Mul(drift, 100),
                     direction |-> direction(drift)]>> \o rest
             ELSE rest

----------------------------------------------------------------------------
(* Price fetcher: fetch_current_prices *)

PriceOrNaN == (1..MaxPrice) \cup {NaN}

RECURSIVE SeqsOfLen(_, _)
SeqsOfLen(S, n) ==
    IF n = 0 THEN {<<>>}
    ELSE {<<x>> \o r : x \in S, r \in SeqsOfLen(S, n - 1)}

\* all functions from the set ks to sequences of n closes
RECURSIVE CloseTables(_, _)
CloseTables(ks, n) ==
    IF ks = {} THEN {EmptyDict}
    ELSE LET k == CHOOSE k \in ks : TRUE
         IN  {[t \in ks |-> IF t = k THEN c ELSE r[t]] :
                 c \in SeqsOfLen(PriceOrNaN, n), r \in CloseTables(ks \ {k}, n)}

NoData == [kind |-> "none", rows |-> 0, close |-> EmptyDict]

\* What yf.download(tickers, period="5d") can produce: an exception, an empty
\* frame, or a frame of 1..maxRows rows with a Close column for some of the
\* requested tickers (for the one ticker, when one is requested).
BulkResponses(tks, maxRows) ==
    {[kind |-> "raise", rows |-> 0, close |-> EmptyDict],
     [kind |-> "frame", rows |-> 0, close |-> EmptyDict]}
    \cup UNION {UNION {{[kind |-> "frame", rows |-> n, close |-> c] : c \in CloseTables(cols, n)} :
                        cols \in (SUBSET Range(tks)) \ {{}}} : n \in 1..maxRows}

dropna(s) == SelectSeq(s, LAMBDA x : x # NaN)

\* lines 116-118: one ticker requested
single_close(t, resp) == [u \in {t} |-> Last(resp.close[t])]

\* lines 120-127: several tickers requested
multi_close(tks, resp) ==
    [t \in {u \in Range(tks) : u \in DOMAIN resp.close /\ dropna(resp.close[u]) # <<>>} |->
        Last(dropna(resp.close[t]))]

\* lines 111-129: the prices the bulk attempt records, and whether an exception
\* of the download leaves the function (the except clause catches them all)
bulk_attempt(tks, resp) ==
    IF resp.kind = "raise" \/ resp.rows = 0 THEN [prices |-> EmptyDict, raised |-> FALSE]
    ELSE IF Len(tks) = 1 THEN [prices |-> single_close(tks[1], resp), raised |-> FALSE]
    ELSE [prices |-> multi_close(tks, resp), raised |-> FALSE]

\* line 132
missing_all(tks, pr) == tks

compute_missing(tks, pr) == SelectSeq(tks, LAMBDA t : t \notin DOMAIN pr)

\* What one request to the chart endpoint can produce: a network error or
\* timeout, a non-200 response, a 200 response with an empty result list, or a
\* meta record whose two price fields are each absent (0) or a price.
FallbackOutcomes ==
    {[kind |-> k, regularMarketPrice |-> 0, previousClose |-> 0] :
        k \in {"network_error", "non200", "no_result"}}
    \cup {[kind |-> "meta", regularMarketPrice |-> r, previousClose |-> c] :
            r \in 0..MaxPrice, c \in 0..MaxPrice}

\* lines 135-150: the price one fallback request yields (0: none) and whether
\* its exception leaves the loop
direct_api_uncaught(o) ==
    [price |-> IF o.kind = "meta"
               THEN (IF o.regularMarketPrice # 0 THEN o.regularMarketPrice ELSE o.previousClose)
               ELSE 0,
     raised |-> o.kind = "network_error"]

direct_api(o) ==
    [price |-> IF o.kind = "meta"
               THEN (IF o.regularMarketPrice # 0 THEN o.regularMarketPrice ELSE o.previousClose)
               ELSE 0,
     raised |-> FALSE]

fetchVars == <<tickers, data, prices, missing_tickers, idx, bulk_requests, queried>>
configVars == <<DRIFT_THRESHOLD, holdings, target_allocations, warmup>>
calcVars == <<position_values, total_value, current_allocations, alerts>>
mailVars == <<emails, delivered>>

\* lines 108-129
BulkDownload(R) ==
    /\ pc = "bulk"
    /\ \E resp \in R :
          LET r == bulk_attempt(tickers, resp)
          IN  /\ data' = resp
              /\ prices' = r.prices
              /\ bulk_requests' = bulk_requests + 1
              /\ pc' = IF r.raised THEN "failed" ELSE "missing"
              /\ error' = IF r.raised THEN "DownloadError" ELSE error
    /\ UNCHANGED <<tickers, missing_tickers, idx, queried>>
    /\ UNCHANGED <<configVars, calcVars, mailVars, reached>>

\* line 132
ComputeMissing ==
    /\ pc = "missing"
    /\ missing_tickers' = compute_missing(tickers, prices)
    /\ idx' = 1
    /\ pc' = "fallback"
    /\ UNCHANGED <<tickers, data, prices, bulk_requests, queried>>
    /\ UNCHANGED <<configVars, calcVars, mailVars, error, reached>>

\* lines 134-150: one iteration of the fallback loop
FallbackQuery ==
    /\ pc = "fallback"
    /\ idx <= Len(missing_tickers)
    /\ \E o \in FallbackOutcomes :
          LET ticker == missing_tickers[idx]
              r == direct_api(o)
          IN  /\ queried' = [queried EXCEPT ![ticker] = @ + 1]
              /\ prices' = IF r.price # 0 /\ ~r.raised
                           THEN [t \in DOMAIN prices \cup {ticker} |->
                                    IF t = ticker THEN r.price ELSE prices[t]]
                           ELSE prices
              /\ pc' = IF r.raised THEN "failed" ELSE pc
              /\ error' = IF r.raised THEN "RequestError" ELSE error
    /\ idx' = idx + 1
    /\ UNCHANGED <<tickers, data, missing_tickers, bulk_requests>>
    /\ UNCHANGED <<configVars, calcVars, mailVars, reached>>

\* lines 152-160: the loop is over; log and return prices
FetchReturn ==
    /\ pc = "fallback"
    /\ idx > Len(missing_tickers)
    /\ data' = NoData
    /\ pc' = "fetched"
    /\ UNCHANGED <<tickers, prices, missing_tickers, idx, bulk_requests, queried>>
    /\ UNCHANGED <<configVars, calcVars, mailVars, error, reached>>

InitCommon ==
    /\ DRIFT_THRESHOLD = 0
    /\ holdings = <<>>
    /\ target_allocations = <<>>
    /\ warmup = FALSE
    /\ tickers = <<>>
    /\ data = NoData
    /\ prices = EmptyDict
    /\ missing_tickers = <<>>
    /\ idx = 1
    /\ bulk_requests = 0
    /\ queried = [t \in Tickers |-> 0]
    /\ position_values = EmptyDict
    /\ total_value = 0
    /\ current_allocations = EmptyDict
    /\ alerts = <<>>
    /\ emails = 0
    /\ delivered = 0
    /\ error = "none"
    /\ reached = {}

\* fetch_current_prices called on a list of distinct tickers
FetchCall ==
    /\ pc = "call"
    /\ \E tks \in OrderedSubsets(Tickers, Cardinality(Tickers)) : tickers' = tks
    /\ pc' = "bulk"
    /\ UNCHANGED <<data, prices, missing_tickers, idx, bulk_requests, queried>>
    /\ UNCHANGED <<configVars, calcVars, mailVars, error, reached>>

InitFetch == InitCommon /\ pc = "call"

NextFetch ==
    \/ FetchCall
    \/ BulkDownload(BulkResponses(tickers, MaxRows))
    \/ ComputeMissing
    \/ FallbackQuery
    \/ FetchReturn

SpecFetch == InitFetch /\ [][NextFetch]_vars

----------------------------------------------------------------------------
(* Configuration loader *)

DefaultThreshold == Scale \div 20

\* DRIFT_THRESHOLD in the environment: unset, not a number, or "0.10"
ThresholdEnv == {"unset", "malformed", "0.10"}

\* A JSON-valued variable: unset, not JSON, JSON that is no object, or an
\* object (dict) whose values are numbers or strings
JsonEnv(dicts) ==
    {[kind |-> k, dict |-> <<>>] : k \in {"unset", "malformed", "array"}}
    \cup {[kind |-> "object", dict |-> d] : d \in dicts}

HoldingsDicts ==
    UNION {DictsOver(ks, (0..MaxShares) \cup {NonNumber}) :
              ks \in OrderedSubsets(Tickers, Cardinality(Tickers))}

Half == Scale \div 2

TargetDicts ==
    {<<>>,
     <<[ticker |-> "A", val |-> Half]>>,
     <<[ticker |-> "A", val |-> Half], [ticker |-> "B", val |-> Half]>>,
     <<[ticker |-> Other, val |-> DefaultThreshold], [ticker |-> "A", val |-> Half + 2]>>,
     <<[ticker |-> "B", val |-> NonNumber]>>}

\* lines 35-40 and 49-55
get_portfolio_holdings(env) ==
    IF env.kind = "unset" THEN [error |-> "ConfigMissing", value |-> <<>>]
    ELSE IF env.kind = "malformed" THEN [error |-> "ConfigParseError", value |-> <<>>]
    ELSE IF env.kind = "array" THEN [error |-> "AttributeError", value |-> <<>>]
    ELSE [error |-> "none", value |-> env.dict]

\* lines 35-40 and 64-76
get_target_allocations(env) ==
    IF env.kind = "unset" THEN [error |-> "ConfigMissing", value |-> <<>>]
    ELSE IF env.kind = "malformed" THEN [error |-> "ConfigParseError", value |-> <<>>]
    ELSE IF env.kind = "array" THEN [error |-> "AttributeError", value |-> <<>>]
    ELSE IF \E k \in DOMAIN env.dict : env.dict[k].val = NonNumber
         THEN [error |-> "TypeError", value |-> <<>>]
    ELSE [error |-> "none", value |-> env.dict]

\* lines 91-97
is_warmup_period(days_elapsed) == days_elapsed < WARMUP_PERIOD_DAYS

Fail(e) ==
    /\ error' = e
    /\ pc' = "failed"

\* line 29, at import
ReadThreshold ==
    /\ pc = "import"
    /\ \E env \in ThresholdEnv :
          IF env = "malformed"
          THEN Fail("ConfigParseError") /\ UNCHANGED DRIFT_THRESHOLD
          ELSE /\ DRIFT_THRESHOLD' = IF env = "unset" THEN DefaultThreshold
                                      ELSE Scale \div 10
               /\ pc' = "load_holdings"
               /\ UNCHANGED error
    /\ UNCHANGED <<holdings, target_allocations, warmup>>
    /\ UNCHANGED <<fetchVars, calcVars, mailVars, reached>>

\* line 364
LoadHoldings ==
    /\ pc = "load_holdings"
    /\ \E env \in JsonEnv(HoldingsDicts) :
          LET r == get_portfolio_holdings(env)
          IN  IF r.error # "none"
              THEN Fail(r.error) /\ UNCHANGED holdings
              ELSE /\ holdings' = r.value
                   /\ pc' = "load_targets"
                   /\ UNCHANGED error
    /\ UNCHANGED <<DRIFT_THRESHOLD, target_allocations, warmup>>
    /\ UNCHANGED <<fetchVars, calcVars, mailVars, reached>>

\* line 365
LoadTargets ==
    /\ pc = "load_targets"
    /\ \E env \in JsonEnv(TargetDicts) :
          LET r == get_target_allocations(env)
          IN  IF r.error # "none"
              THEN Fail(r.error) /\ UNCHANGED target_allocations
              ELSE /\ target_allocations' = r.value
                   /\ pc' = "load_warmup"
                   /\ UNCHANGED error
    /\ UNCHANGED <<DRIFT_THRESHOLD, holdings, warmup>>
    /\ UNCHANGED <<fetchVars, calcVars, mailVars, reached>>

\* line 366: START_DATE unset, malformed, or a date days_elapsed days ago
LoadWarmup ==
    /\ pc = "load_warmup"
    /\ \/ \E e \in {"ConfigMissing", "ConfigParseError"} :
             Fail(e) /\ UNCHANGED warmup
       \/ \E days_elapsed \in 0..MaxDays :
             /\ warmup' = is_warmup_period(days_elapsed)
             /\ pc' = "call_fetch"
             /\ UNCHANGED error
    /\ UNCHANGED <<DRIFT_THRESHOLD, holdings, target_allocations>>
    /\ UNCHANGED <<fetchVars, calcVars, mailVars, reached>>

\* line 370: fetch_current_prices(list(holdings.keys()))
CallFetch ==
    /\ pc = "call_fetch"
    /\ tickers' = [k \in DOMAIN holdings |-> holdings[k].ticker]
    /\ pc' = "bulk"
    /\ reached' = reached \cup {"fetch"}
    /\ UNCHANGED <<data, prices, missing_tickers, idx, bulk_requests, queried>>
    /\ UNCHANGED <<configVars, calcVars, mailVars, error>>

----------------------------------------------------------------------------
(* The run after the fetch *)

no_prices_ignored(pr) == FALSE

\* line 372: not prices
no_prices(pr) == pr = EmptyDict

\* lines 372-373
CheckPrices ==
    /\ pc = "fetched"
    /\ IF no_prices(prices)
       THEN Fail("NoPricesResolved")
       ELSE pc' = "calculate" /\ UNCHANGED error
    /\ UNCHANGED <<configVars, fetchVars, calcVars, mailVars, reached>>

\* lines 376-377; shares that are a string make shares * price a TypeError
Calculate ==
    /\ pc = "calculate"
    /\ reached' = reached \cup {"calculate"}
    /\ IF \E k \in DOMAIN holdings :
             holdings[k].ticker \in DOMAIN prices /\ holdings[k].val = NonNumber
       THEN Fail("TypeError") /\ UNCHANGED <<position_values, total_value>>
       ELSE LET r == calculate_portfolio_value(holdings, prices)
            IN  /\ position_values' = r.values
                /\ total_value' = r.total
                /\ pc' = "allocations"
                /\ UNCHANGED error
    /\ UNCHANGED <<current_allocations, alerts>>
    /\ UNCHANGED <<configVars, fetchVars, mailVars>>

\* line 380
Allocations ==
    /\ pc = "allocations"
    /\ reached' = reached \cup {"allocations"}
    /\ current_allocations' = calculate_current_allocations(position_values, total_value)
    /\ pc' = "drift"
    /\ UNCHANGED <<position_values, total_value, alerts>>
    /\ UNCHANGED <<configVars, fetchVars, mailVars, error>>

\* lines 383-406
CheckDrift ==
    /\ pc = "drift"
    /\ reached' = reached \cup {"drift"}
    /\ alerts' = check_drift(current_allocations, target_allocations, DRIFT_THRESHOLD)
    /\ pc' = "decide"
    /\ UNCHANGED <<position_values, total_value, current_allocations>>
    /\ UNCHANGED <<configVars, fetchVars, mailVars, error>>

should_send_on_alerts(w, al) == al # <<>>

\* lines 409 and 413
should_send(w, al) == w \/ al # <<>>

\* lines 301-322: a position's shares are formatted with :.3f
renders(h, targets) ==
    \A k \in DOMAIN targets :
        targets[k].ticker \in Keys(h) => Get(h, targets[k].ticker) # NonNumber

\* lines 218-349: what send_email does, given which credentials are set and
\* whether the SMTP server takes the message
send_email(address_set, password_set, smtp_ok) ==
    IF ~address_set \/ ~password_set THEN "ConfigMissing"
    ELSE IF ~renders(holdings, target_allocations) THEN "ValueError"
    ELSE IF ~smtp_ok THEN "DeliveryFailure"
    ELSE "none"

\* lines 409-416
Notify ==
    /\ pc = "decide"
    /\ should_send(warmup, alerts)
    /\ reached' = reached \cup {"decide"}
    /\ emails' = emails + 1
    /\ \E address_set \in BOOLEAN, password_set \in BOOLEAN, smtp_ok \in BOOLEAN :
          LET e == send_email(address_set, password_set, smtp_ok)
          IN  IF e # "none"
              THEN Fail(e) /\ UNCHANGED delivered
              ELSE /\ delivered' = delivered + 1
                   /\ pc' = "done"
                   /\ UNCHANGED error
    /\ UNCHANGED <<configVars, fetchVars, calcVars>>

\* lines 417-420
NoEmail ==
    /\ pc = "decide"
    /\ ~should_send(warmup, alerts)
    /\ reached' = reached \cup {"decide"}
    /\ pc' = "done"
    /\ UNCHANGED <<configVars, fetchVars, calcVars, mailVars, error>>

Init == InitCommon /\ pc = "import"

Next ==
    \/ ReadThreshold
    \/ LoadHoldings
    \/ LoadTargets
    \/ LoadWarmup
    \/ CallFetch
    \/ BulkDownload(BulkResponses(tickers, 1))
    \/ ComputeMissing
    \/ FallbackQuery
    \/ FetchReturn
    \/ CheckPrices
    \/ Calculate
    \/ Allocations
    \/ CheckDrift
    \/ Notify
    \/ NoEmail

Spec == Init /\ [][Next]_vars

----------------------------------------------------------------------------
(* The calculator and the analyzer as functions of their arguments *)

AllTickers == Tickers \cup {Other}

\* the subsequences of s
RECURSIVE SubSeqs(_)
SubSeqs(s) ==
    IF s = <<>> THEN {<<>>}
    ELSE LET r == SubSeqs(Tail(s))
         IN  r \cup {<<Head(s)>> \o x : x \in r}

CalcHoldings ==
    UNION {DictsOver(ks, 0..MaxShares) : ks \in SubSeqs(<<"A", "B", Other>>)}

CalcPrices == UNION {[S -> 1..MaxPrice] : S \in SUBSET AllTickers}

CalcTargets ==
    UNION {DictsOver(ks, {DefaultThreshold, Half}) :
              ks \in OrderedSubsets(Tickers, Cardinality(Tickers))}

CalcThresholds == {DefaultThreshold, 2 * DefaultThreshold}

ApplyValue ==
    /\ pc = "value"
    /\ \E h \in CalcHoldings, p \in CalcPrices :
          LET r == calculate_portfolio_value(h, p)
          IN  /\ holdings' = h
              /\ prices' = p
              /\ position_values' = r.values
              /\ total_value' = r.total
    /\ pc' = "alloc"
    /\ UNCHANGED <<DRIFT_THRESHOLD, target_allocations, warmup, current_allocations, alerts>>
    /\ UNCHANGED <<tickers, data, missing_tickers, idx, bulk_requests, queried>>
    /\ UNCHANGED <<mailVars, error, reached>>

ApplyAllocations ==
    /\ pc = "alloc"
    /\ current_allocations' = calculate_current_allocations(position_values, total_value)
    /\ pc' = "check"
    /\ UNCHANGED <<position_values, total_value, alerts>>
    /\ UNCHANGED <<configVars, fetchVars, mailVars, error, reached>>

ApplyDrift ==
    /\ pc = "check"
    /\ \E tg \in CalcTargets, th \in CalcThresholds :
          /\ target_allocations' = tg
          /\ DRIFT_THRESHOLD' = th
          /\ alerts' = check_drift(current_allocations, tg, th)
    /\ pc' = "checked"
    /\ UNCHANGED <<holdings, warmup, position_values, total_value, current_allocations>>
    /\ UNCHANGED <<fetchVars, mailVars, error, reached>>

InitCalc == InitCommon /\ pc = "value"

NextCalc ==
    \/ ApplyValue
    \/ ApplyAllocations
    \/ ApplyDrift

SpecCalc == InitCalc /\ [][NextCalc]_vars

----------------------------------------------------------------------------
(* Properties *)

\* the prices the bulk attempt recorded, while its table is still at hand
BulkResolved == bulk_attempt(tickers, data).prices

LoopOver == pc = "fallback" /\ idx > Len(missing_tickers)

\* C1: fetch_current_prices never raises, whatever the bulk request and the
\* fallback requests do: no exception leaves it, every step before the return
\* has a successor, and the keys of prices are among the requested tickers,
\* also when no price is resolved.
C1_FetchReturnsNormally ==
    /\ error = "none"
    /\ pc # "failed"
    /\ DOMAIN prices \subseteq Range(tickers)
    /\ pc \in {"bulk", "missing", "fallback"} => ENABLED NextFetch

\* C1 witness: two tickers requested, the bulk request made, both fallback
\* requests made, nothing resolved, and the function has returned.
C1_Witness ==
    /\ pc = "fetched"
    /\ Len(tickers) = 2
    /\ prices = EmptyDict
    /\ bulk_requests = 1
    /\ \A t \in Range(tickers) : queried[t] = 1

\* C2: a ticker the bulk attempt resolved is never queried by the fallback
\* and keeps its bulk price; no ticker is queried twice; and when the loop is
\* over every requested ticker the bulk attempt left unresolved has been
\* queried exactly once, whatever the earlier queries returned.
C2_FallbackOncePerUnresolved ==
    /\ \A t \in Tickers : queried[t] <= 1
    /\ pc \in {"missing", "fallback"} =>
          \A t \in DOMAIN BulkResolved :
              queried[t] = 0 /\ t \in DOMAIN prices /\ prices[t] = BulkResolved[t]
    /\ LoopOver =>
          \A t \in Tickers :
              queried[t] = IF t \in Range(tickers) \ DOMAIN BulkResolved THEN 1 ELSE 0

\* C2 witness: both tickers went to the fallback, the first query yielded no
\* price, and the second was still made and yielded one.
C2_Witness ==
    /\ LoopOver
    /\ Len(missing_tickers) = 2
    /\ missing_tickers[1] \notin DOMAIN prices
    /\ missing_tickers[2] \in DOMAIN prices
    /\ queried[missing_tickers[1]] = 1
    /\ queried[missing_tickers[2]] = 1

\* C10: after the bulk attempt, every recorded price is the most recent
\* non-missing close of its ticker in the returned table, and is never NaN,
\* whether one ticker or several were requested.
C10_BulkRecordsLatestValidClose ==
    pc = "missing" =>
        \A t \in DOMAIN prices :
            /\ prices[t] # NaN
            /\ dropna(data.close[t]) # <<>>
            /\ prices[t] = Last(dropna(data.close[t]))

Fetched == "fetch" \in reached /\ pc \notin {"bulk", "missing", "fallback"}

\* C3: when the fetch returns an empty price map the run fails with the
\* "no prices" error: the calculator and the analyzer are never entered with
\* an empty map, and no email is sent in that run.
C3_EmptyPricesAreFatal ==
    /\ pc \in {"calculate", "allocations", "drift", "decide", "done"} => prices # EmptyDict
    /\ error = "NoPricesResolved" => prices = EmptyDict
    /\ (Fetched /\ pc # "fetched" /\ prices = EmptyDict) =>
          /\ pc = "failed"
          /\ error = "NoPricesResolved"
          /\ reached = {"fetch"}
          /\ emails = 0
          /\ delivered = 0

\* C3 witness: two tickers held, the bulk and both fallback requests made,
\* nothing resolved, and the run has failed.
C3_Witness ==
    /\ error = "NoPricesResolved"
    /\ Len(tickers) = 2
    /\ bulk_requests = 1
    /\ \A t \in Range(tickers) : queried[t] = 1

\* C5: once the notification decision is taken, send_email has been invoked
\* exactly once if the run is in warm-up or there are alerts, and not at all
\* otherwise; in the latter case the run completes without error.  Before the
\* decision it has not been invoked.
C5_NotifierOnceIffWarmupOrAlerts ==
    /\ "decide" \notin reached => emails = 0
    /\ "decide" \in reached =>
          /\ emails = IF warmup \/ alerts # <<>> THEN 1 ELSE 0
          /\ (~warmup /\ alerts = <<>>) => (pc = "done" /\ error = "none" /\ delivered = 0)

\* C5 witness: a warm-up run without alerts whose email was sent.
C5_Witness ==
    /\ pc = "done"
    /\ warmup
    /\ alerts = <<>>
    /\ emails = 1
    /\ delivered = 1

\* C6: a run that ends with a missing or unparsable configuration value has
\* made no price request.
C6_ConfigErrorsBeforeNetwork ==
    error \in {"ConfigMissing", "ConfigParseError"} =>
        /\ bulk_requests = 0
        /\ \A t \in Tickers : queried[t] = 0

\* C9: a PORTFOLIO_HOLDINGS or TARGET_ALLOCATIONS value that is not a JSON
\* object of numbers ends the run in the loader with the "Invalid JSON"
\* configuration error, and is never passed on to the fetch.
C9_MalformedConfigRejected ==
    /\ (pc = "failed" /\ "fetch" \notin reached) =>
          error \in {"ConfigMissing", "ConfigParseError"}
    /\ "fetch" \in reached =>
          /\ \A k \in DOMAIN holdings : holdings[k].val # NonNumber
          /\ \A k \in DOMAIN target_allocations : target_allocations[k].val # NonNumber

RECURSIVE SetSum(_, _)
SetSum(f, S) ==
    IF S = {} THEN 0
    ELSE LET t == CHOOSE t \in S : TRUE
         IN  f[t] + SetSum(f, S \ {t})

Magnitude(x) == IF x < 0 THEN 0 - x ELSE x

\* C7: the value map's keys are exactly the tickers both held and priced,
\* each value is shares times price, and the total is the sum of these
\* products; a held ticker without a price is absent from the map.
C7_ValueOverHeldAndPriced ==
    pc \in {"alloc", "check", "checked"} =>
        /\ DOMAIN position_values = Keys(holdings) \cap DOMAIN prices
        /\ \A t \in DOMAIN position_values :
              position_values[t] = Get(holdings, t) * prices[t]
        /\ total_value =
              SetSum([t \in Keys(holdings) \cap DOMAIN prices |-> Get(holdings, t) * prices[t]],
                     Keys(holdings) \cap DOMAIN prices)

\* C7 witness: a held ticker without a price, a priced ticker that is not
\* held, and two held and priced tickers with a positive total.
C7_Witness ==
    /\ pc = "alloc"
    /\ Keys(holdings) \ DOMAIN prices # {}
    /\ DOMAIN prices \ Keys(holdings) # {}
    /\ Cardinality(DOMAIN position_values) = 1
    /\ total_value > 0

Current(t) == IF t \in DOMAIN current_allocations THEN current_allocations[t] ELSE 0

TargetTickers == [k \in DOMAIN target_allocations |-> target_allocations[k].ticker]

\* C4: the alerts are, in target order and once each, exactly the target
\* tickers whose |current - target| is strictly above the threshold, current
\* being 0 for a ticker without a current allocation; a drift equal to the
\* threshold gives no alert; an alert is OVER when current > target and UNDER
\* otherwise.
C4_AlertIffDriftAboveThreshold ==
    pc = "checked" =>
        /\ [k \in DOMAIN alerts |-> alerts[k].ticker] =
              SelectSeq(TargetTickers,
                        LAMBDA t : Magnitude(Current(t) - Get(target_allocations, t))
                                      > DRIFT_THRESHOLD)
        /\ \A k \in DOMAIN alerts :
              LET t == alerts[k].ticker
              IN  /\ Magnitude(Current(t) - Get(target_allocations, t)) # DRIFT_THRESHOLD
                  /\ alerts[k].direction =
                        IF Current(t) > Get(target_allocations, t) THEN "OVER" ELSE "UNDER"

\* C4 witness: two targets, the first with a drift equal to the threshold and
\* no alert, the second alerted; and a ticker with a current allocation but no
\* target.
C4_Witness ==
    /\ pc = "checked"
    /\ Len(target_allocations) = 2
    /\ Magnitude(Current(TargetTickers[1]) - target_allocations[1].val) = DRIFT_THRESHOLD
    /\ Len(alerts) = 1
    /\ alerts[1].ticker = TargetTickers[2]
    /\ DOMAIN current_allocations \ Range(TargetTickers) # {}

====
